---- MODULE Spec2Model ----
(***************************************************************************)
(* Legend-State: the observable node graph, the listener registry with     *)
(* nested batching, the effect lifecycle (observe / computed / when) and   *)
(* the helpers of src/helpers.ts (lockObservable, ...).                    *)
(*                                                                         *)
(* The observable under study is                                           *)
(*     state = observable({ a: <num>, o: { x: <num> } })                   *)
(* and a second tree holds the output of one computed, c.                  *)
(* Every operation of the API is synchronous: an action below is one       *)
(* complete call, with every listener it invokes before it returns.        *)
(***************************************************************************)
EXTENDS Integers, Sequences, FiniteSets, TLC

\* ------------------------------------------------------------------ bounds
\* Raw numbers stored at the leaves range over 0..MaxVal.
MaxVal == 1
\* beginBatch() is called at most MaxDepth levels deep.
MaxDepth == 2
\* At most MaxWrites writes are made inside one batch.
MaxWrites == 2
\* The re-entrancy guard of an effect allows MaxReruns runs in one operation.
MaxReruns == 3

\* ------------------------------------------------------------------ values
\* JavaScript's undefined: the value of a key that is absent.
Undef == -1

Vals == 0 .. MaxVal

RawVals == Vals \cup {Undef}

\* undefined read as a number by the selectors below (v ?? 0).
Num(v) == IF v = Undef THEN 0 ELSE v

\* ------------------------------------------------------------------ node graph
\* One node per path: root, root.a, root.o, root.o.x; c is the root (and only
\* node) of the tree of the computed.
Nodes == {"root", "a", "o", "x", "c"}

\* The nodes that hold a primitive.
Leaves == {"a", "x", "c"}

\* The leaves of the state tree a caller writes to.
UserLeaves == {"a", "x"}

\* The key the caller removes and adds again.
Deletable == {"x"}

\* The nodes that hold an object.
Containers == {"root", "o"}

NoNode == "none"

\* node.parent
ParentOf(n) == CASE n = "a" -> "root"
                 [] n = "o" -> "root"
                 [] n = "x" -> "o"
                 [] OTHER -> NoNode

\* node.key
KeyOf(n) == n

\* node.root: the root record shared by the tree of n.
RootOf(n) == IF n = "c" THEN "c" ELSE "root"

Roots == {"root", "c"}

\* The strict ancestors of n, up to the root.
RECURSIVE AncestorsOf(_)
AncestorsOf(n) == IF ParentOf(n) = NoNode THEN {}
                  ELSE {ParentOf(n)} \cup AncestorsOf(ParentOf(n))

\* m is n or a strict ancestor of n: a change at n is a change in m's subtree.
Covers(m, n) == m = n \/ m \in AncestorsOf(n)

\* The key sequence from m down to n, for m covering n.
RECURSIVE PathFrom(_, _)
PathFrom(m, n) == IF m = n THEN <<>> ELSE Append(PathFrom(m, ParentOf(n)), KeyOf(n))

\* The raw value of node n in the raw data r: the number at a leaf, and for an
\* object the values of the leaves below it (Undef for an absent key).
ValueAt(n, r) == IF n \in Leaves THEN r[n]
                 ELSE [l \in {k \in Leaves : Covers(n, k)} |-> r[l]]

\* The key set of the object at container m.
KeysOf(m, r) == {k \in Nodes : ParentOf(k) = m /\ (k \in Containers \/ r[k] # Undef)}

\* ------------------------------------------------------------------ state
VARIABLES
    raw,        \* the raw data: the value at every leaf
    locked,     \* root.locked, per tree
    depth,      \* the batch nesting counter
    pending,    \* the pending notifications <<node, value before the batch>>
    lst,        \* the listener registry: the onChange listeners
    eff,        \* the effects: observe, computed, when
    cbCount,    \* how many times the callback of when() has been called
    log,        \* the callbacks invoked by the last operation, in order
    flushed,    \* the pending notifications the last operation delivered
    err,        \* the error the last operation raised
    op,         \* the last operation: its name and arguments
    written,    \* the leaves written since the outermost batch opened
    nwrites,    \* how many writes were accepted since it opened
    batchStart, \* the raw data when the outermost batch opened
    lockReq,    \* the value of the last lockObservable() call on each tree
    arrayNode,  \* the node of the keyed array state.arr, with its children
    tracking,   \* the tracking-context stack and the evaluations completed
    heap,       \* the plain objects given to mergeIntoObservable, by address
    mergeCall,  \* the call of mergeIntoObservable: arguments, result, heap before
    selCall     \* the last call of computeSelector: arguments, result, calls made

vars == <<raw, locked, depth, pending, lst, eff, cbCount, log, flushed, err, op,
          written, nwrites, batchStart, lockReq, arrayNode, tracking, heap, mergeCall,
          selCall>>

\* ------------------------------------------------------------------ listeners
LIds == {"l1", "l2"}

\* The order listeners were registered in, which is the order they are called in.
LOrder == <<"l1", "l2">>

\* What each listener is registered with: <<node, shallow, immediate>>. A shallow
\* listener goes on an object. The first listener goes anywhere in the state
\* tree and is delivered in batches; the second goes on o, or on o.x with the
\* immediate option.
SubscribeOptions(l) ==
    IF l = "l1"
    THEN {<<n, sh, FALSE>> : n \in {"root", "a", "o", "x"}, sh \in {FALSE}}
         \cup {<<n, TRUE, FALSE>> : n \in {"root", "o"}}
    ELSE {<<"o", FALSE, FALSE>>, <<"x", FALSE, TRUE>>}

NoListener == [active |-> FALSE, node |-> NoNode, shallow |-> FALSE, immediate |-> FALSE]

\* ------------------------------------------------------------------ selectors
\* The selectors given to observe(), computed() and when().
\*   "a":    () => state.a.get()
\*   "x":    () => state.o.x.get()
\*   "sum":  () => state.a.get() + state.o.x.get()
\*   "o":    () => state.o.get().x
\*   "keys": () => Object.keys(state.o).length
\*   "diff": () => c.get() - state.a.get()
\*   "total": () => state.a.get() + state.o.x.get()      (the computed c)
\*   "pos":  () => state.a.get() > 0          (the predicate of when)
\*   "cond": () => state.a.get() > 0 ? state.o.x.get() : 0
\*   "toggle": () => state.a.set(state.a.get() > 0 ? 0 : 1)
\*   "copy": () => state.o.x.set(state.a.get())
ObserveSels == {"a", "x", "sum", "o", "keys"}

\* The selectors observed next to the computed c.
DerivedSels == {"sum", "diff"}

\* Faulty variant: every selector is tracked at the root of the state tree.
Reads_Root(sel, r) == {<<"root", FALSE>>}

\* The (node, shallow) pairs the selector reads with get() / get(true).
Reads(sel, r) == CASE sel = "a" -> {<<"a", FALSE>>}
                   [] sel = "x" -> {<<"x", FALSE>>}
                   [] sel = "sum" -> {<<"a", FALSE>>, <<"x", FALSE>>}
                   [] sel = "o" -> {<<"o", FALSE>>}
                   [] sel = "keys" -> {<<"o", TRUE>>}
                   [] sel = "diff" -> {<<"a", FALSE>>, <<"c", FALSE>>}
                   [] sel = "total" -> {<<"a", FALSE>>, <<"x", FALSE>>}
                   [] sel = "pos" -> {<<"a", FALSE>>}
                   [] sel = "cond" -> IF r["a"] > 0 THEN {<<"a", FALSE>>, <<"x", FALSE>>}
                                      ELSE {<<"a", FALSE>>}
                   [] sel = "toggle" -> {<<"a", FALSE>>}
                   [] sel = "copy" -> {<<"a", FALSE>>}
                   [] OTHER -> {}

\* The value the selector returns on the raw data r.
Result(sel, r) == CASE sel = "a" -> r["a"]
                    [] sel = "x" -> r["x"]
                    [] sel = "sum" -> Num(r["a"]) + Num(r["x"])
                    [] sel = "o" -> ValueAt("o", r)["x"]
                    [] sel = "keys" -> Cardinality(KeysOf("o", r))
                    [] sel = "diff" -> Num(r["c"]) - Num(r["a"])
                    [] sel = "total" -> Num(r["a"]) + Num(r["x"])
                    [] sel = "pos" -> r["a"] > 0
                    [] sel = "cond" -> IF r["a"] > 0 THEN Num(r["x"]) ELSE 0
                    [] sel = "toggle" -> r["a"]
                    [] sel = "copy" -> r["a"]
                    [] OTHER -> Undef

\* The selectors that write while they run, the node they write and the value.
WritingSels == {"toggle", "copy"}

WrittenNode(sel) == IF sel = "toggle" THEN "a" ELSE "x"

WrittenValue(sel, r) == IF sel = "toggle" THEN (IF r["a"] > 0 THEN 0 ELSE 1) ELSE r["a"]

\* ------------------------------------------------------------------ effects
EIds == {"obs", "comp", "when"}

\* The order the effects are called in.
EOrder == <<"obs", "comp", "when">>

\* Faulty variant: computed() registers its listeners without the immediate option.
Immediate_Never(e) == FALSE

\* computed() is observe() with immediate delivery.
Immediate(e) == e = "comp"

NoEffect == [state |-> "none", sel |-> "none", deps |-> {}, previous |-> Undef]

\* Faulty variant: an effect stays subscribed to what its earlier runs read.
Resubscribe_KeepsOld(old, read) == old \cup read

\* The subscriptions of an effect after a run that read the pairs in read: it
\* unsubscribes from what it no longer reads and subscribes to what is new.
Resubscribe(old, read) == (old \cap read) \cup (read \ old)

\* Faulty variant: the guard allows twice as many runs.
GuardTripped_Late(st, e) == st.reruns[e] >= 2 * MaxReruns

\* The re-entrancy guard of effect e: it has run MaxReruns times in a row in
\* the operation under way.
GuardTripped(st, e) == st.reruns[e] >= MaxReruns

\* ------------------------------------------------------------------ pending set
PendingNodes(P) == {P[i][1] : i \in DOMAIN P}

\* The value node n had before the batch, as the pending set P captured it.
PreOf(P, n) == P[CHOOSE i \in DOMAIN P : P[i][1] = n][2]

\* The first write to a node in a batch captures the value before the batch;
\* later writes leave the entry alone.
AddPending(st, n, pre) ==
    IF n \in PendingNodes(st.pending) THEN st
    ELSE [st EXCEPT !.pending = Append(@, <<n, pre>>)]

\* The raw data before the writes P describes were made.
PrevRaw(P, r) == [l \in Leaves |-> IF l \in PendingNodes(P) THEN PreOf(P, l) ELSE r[l]]

\* ------------------------------------------------------------------ change records
\* The changes of P below node m: path from m, value at path, previous at path.
Changes(m, P, r) ==
    LET S == SelectSeq(P, LAMBDA p : Covers(m, p[1]))
    IN  [i \in DOMAIN S |-> [path |-> PathFrom(m, S[i][1]),
                             valueAtPath |-> r[S[i][1]],
                             prevAtPath |-> S[i][2]]]

\* Faulty variant: a change is delivered only to the listeners on the changed node.
DeepHit_SelfOnly(m, P) == \E i \in DOMAIN P : m = P[i][1]

\* A deep listener on m reacts to any change at or below m.
DeepHit(m, P) == \E i \in DOMAIN P : Covers(m, P[i][1])

\* Faulty variant: a shallow listener reacts to any change of a child.
ShallowHit_AnyChild(m, P, r) == \E i \in DOMAIN P : ParentOf(P[i][1]) = m

\* A shallow listener on m reacts when a key of m was added or removed.
ShallowHit(m, P, r) ==
    \E i \in DOMAIN P : /\ ParentOf(P[i][1]) = m
                        /\ (P[i][2] = Undef) # (r[P[i][1]] = Undef)

Hit(m, shallow, P, r) == IF shallow THEN ShallowHit(m, P, r) ELSE DeepHit(m, P)

\* Faulty variant: getPrevious() returns the value the node has now.
RunListener_NoPrevious(st, l, P) ==
    LET m == st.lst[l].node
    IN  [st EXCEPT !.log = Append(@, [cb |-> l, kind |-> "listener",
                                      value |-> ValueAt(m, st.raw),
                                      prev |-> ValueAt(m, st.raw),
                                      changes |-> Changes(m, P, st.raw),
                                      deps |-> {}])]

\* The listener's callback, called with the change record of P.
RunListener(st, l, P) ==
    LET m == st.lst[l].node
    IN  [st EXCEPT !.log = Append(@, [cb |-> l, kind |-> "listener",
                                      value |-> ValueAt(m, st.raw),
                                      prev |-> ValueAt(m, PrevRaw(P, st.raw)),
                                      changes |-> Changes(m, P, st.raw),
                                      deps |-> {}])]

RECURSIVE RunListeners(_, _, _)
RunListeners(st, ids, P) ==
    IF ids = <<>> THEN st
    ELSE RunListeners(RunListener(st, Head(ids), P), Tail(ids), P)

\* ------------------------------------------------------------------ engine
\* The operators below work on the record st of the engine's state during one
\* operation: raw, locked, depth, pending, lst, eff, cbCount, log, flushed, err,
\* and reruns, how many times each effect has run in the operation.

RECURSIVE SetValue(_, _, _)

\* Faulty variant: when() calls its callback on a truthy result and keeps listening.
RunEffect_KeepsListening(st, e) ==
    LET E == st.eff[e]
        res == Result(E.sel, st.raw)
        kind == CASE e = "obs" -> "observe" [] e = "comp" -> "computed" [] OTHER -> "when"
        entry == [cb |-> e, kind |-> kind, value |-> res, prev |-> E.previous,
                  changes |-> <<>>, deps |-> E.deps]
        tracked == [st EXCEPT !.eff[e].deps = Resubscribe(E.deps, Reads(E.sel, st.raw)),
                              !.eff[e].previous = res,
                              !.log = Append(@, entry),
                              !.reruns[e] = @ + 1]
    IN  IF E.state # "tracked" \/ st.err = "CircularDependency" THEN st
        ELSE IF GuardTripped(st, e) THEN [st EXCEPT !.err = "CircularDependency"]
        ELSE IF e = "comp" THEN SetValue(tracked, "c", res)
        ELSE IF E.sel \in WritingSels
             THEN SetValue(tracked, WrittenNode(E.sel), WrittenValue(E.sel, st.raw))
        ELSE IF e = "when" /\ res = TRUE
             THEN [tracked EXCEPT !.cbCount = @ + 1,
                                  !.log = Append(@, [entry EXCEPT !.kind = "whenCb"])]
        ELSE tracked

\* One run of effect e: the selector is evaluated in a fresh tracking context,
\* the effect subscribes to what this run read, and
\*   observe:  remembers the result as previous;
\*   computed: writes the result to its node c;
\*   when:     on a truthy result calls the callback and disposes itself.
\* A disposed effect ignores the notification. A selector that writes does so
\* while it runs; the run that would exceed the re-entrancy guard raises
\* CircularDependency instead, which ends the operation's remaining runs.
RunEffect(st, e) ==
    LET E == st.eff[e]
        res == Result(E.sel, st.raw)
        kind == CASE e = "obs" -> "observe" [] e = "comp" -> "computed" [] OTHER -> "when"
        entry == [cb |-> e, kind |-> kind, value |-> res, prev |-> E.previous,
                  changes |-> <<>>, deps |-> E.deps]
        tracked == [st EXCEPT !.eff[e].deps = Resubscribe(E.deps, Reads(E.sel, st.raw)),
                              !.eff[e].previous = res,
                              !.log = Append(@, entry),
                              !.reruns[e] = @ + 1]
    IN  IF E.state # "tracked" \/ st.err = "CircularDependency" THEN st
        ELSE IF GuardTripped(st, e) THEN [st EXCEPT !.err = "CircularDependency"]
        ELSE IF e = "comp" THEN SetValue(tracked, "c", res)
        ELSE IF E.sel \in WritingSels
             THEN SetValue(tracked, WrittenNode(E.sel), WrittenValue(E.sel, st.raw))
        ELSE IF e = "when" /\ res = TRUE
             THEN [tracked EXCEPT !.eff[e].state = "disposed",
                                  !.eff[e].deps = {},
                                  !.cbCount = @ + 1,
                                  !.log = Append(@, [entry EXCEPT !.kind = "whenCb"])]
        ELSE tracked

RECURSIVE RunEffects(_, _)
RunEffects(st, ids) ==
    IF ids = <<>> THEN st ELSE RunEffects(RunEffect(st, Head(ids)), Tail(ids))

\* The listeners delivered when a batch closes: those registered without the
\* immediate option that P concerns, in registration order.
BatchedListeners(st, P) ==
    SelectSeq(LOrder, LAMBDA l : /\ st.lst[l].active
                                  /\ ~st.lst[l].immediate
                                  /\ Hit(st.lst[l].node, st.lst[l].shallow, P, st.raw))

\* The listeners with the immediate option that P concerns.
ImmediateListeners(st, P) ==
    SelectSeq(LOrder, LAMBDA l : /\ st.lst[l].active
                                  /\ st.lst[l].immediate
                                  /\ Hit(st.lst[l].node, st.lst[l].shallow, P, st.raw))

\* Effect e is subscribed to a node that P concerns.
EffectHit(st, e, P) ==
    /\ st.eff[e].state = "tracked"
    /\ \E d \in st.eff[e].deps : Hit(d[1], d[2], P, st.raw)

\* The effects delivered when a batch closes: observe() and when().
BatchedEffects(st, P) ==
    SelectSeq(EOrder, LAMBDA e : ~Immediate(e) /\ EffectHit(st, e, P))

\* Faulty variant: every effect is delivered at the write.
ImmediateEffects_All(st, P) == SelectSeq(EOrder, LAMBDA e : EffectHit(st, e, P))

\* The effects delivered at the write: computed().
ImmediateEffects(st, P) ==
    SelectSeq(EOrder, LAMBDA e : Immediate(e) /\ EffectHit(st, e, P))

\* The flush: every pending entry is delivered, once per listener, the plain
\* listeners first and the effects after them.
Flush(st) ==
    LET P == st.pending
        s0 == [st EXCEPT !.pending = <<>>, !.flushed = @ \o P]
        s1 == RunListeners(s0, BatchedListeners(s0, P), P)
    IN  RunEffects(s1, BatchedEffects(s0, P))

\* beginBatch()
BeginBatchOp(st) == [st EXCEPT !.depth = @ + 1]

\* Faulty variant: every endBatch() flushes, the inner ones too.
EndBatchOp_AlwaysFlush(st) == Flush([st EXCEPT !.depth = @ - 1])

\* Faulty variant: the flush runs with the batch still open, so what a callback
\* writes is left pending.
EndBatchOp_FlushBeforeClose(st) ==
    IF st.depth = 1 THEN [Flush(st) EXCEPT !.depth = 0]
    ELSE [st EXCEPT !.depth = @ - 1]

\* endBatch(): the flush happens when the depth returns to 0.
EndBatchOp(st) ==
    IF st.depth = 1 THEN Flush([st EXCEPT !.depth = 0])
    ELSE [st EXCEPT !.depth = @ - 1]

\* The notification of one write, inside a batch: the immediate listeners and
\* the computeds run now, the others wait in the pending set.
NotifyInBatch(st, n, pre) ==
    LET P == << <<n, pre>> >>
        s1 == AddPending(st, n, pre)
        s2 == RunListeners(s1, ImmediateListeners(s1, P), P)
    IN  RunEffects(s2, ImmediateEffects(s1, P))

\* Faulty variant: a write made with no batch open is left pending.
Notify_NoImplicitBatch(st, n, pre) == NotifyInBatch(st, n, pre)

\* notify(node): at depth 0 a batch of depth 1 is opened around the notification.
Notify(st, n, pre) ==
    IF st.depth = 0 THEN EndBatchOp(NotifyInBatch(BeginBatchOp(st), n, pre))
    ELSE NotifyInBatch(st, n, pre)

\* setValue(node, value): rejected when the tree of the node is locked.
SetValue(st, n, v) ==
    IF st.locked[RootOf(n)] THEN [st EXCEPT !.err = "WriteRejected"]
    ELSE Notify([st EXCEPT !.raw[n] = v], n, st.raw[n])

\* ------------------------------------------------------------------ helpers.ts
\* Faulty variant: a value that is no observable is given the node of the state.
getNode_Default(obs) == IF obs \in Nodes THEN obs ELSE "root"

\* getNode(obs): obs[symbolGetNode], undefined for a value that is no observable.
getNode(obs) == IF obs \in Nodes THEN obs ELSE NoNode

\* Faulty variant: root.locked = true, whatever the value.
lockObservable_AlwaysLocks(st, obs, value) ==
    IF getNode(obs) # NoNode THEN [st EXCEPT !.locked[RootOf(getNode(obs))] = TRUE]
    ELSE st

\* lockObservable(obs, value): root.locked = value on the root of obs's tree.
lockObservable(st, obs, value) ==
    IF getNode(obs) # NoNode THEN [st EXCEPT !.locked[RootOf(getNode(obs))] = value]
    ELSE st

\* ------------------------------------------------------------------ arrays
\* state.arr is an array of objects { id }, each with a unique id. The array is
\* written as the sequence of the ids of its elements.
MaxLen == 3

\* The ids the elements take.
Ids == 1 .. MaxLen

\* The child nodes of the array: no more than MaxLen are in use at a time, and
\* the node of a removed element is disposed and can be created again.
ChildNodes == 1 .. MaxLen

NoChild == 0

\* a.splice(i, 1)
RemoveAt(a, i) == SubSeq(a, 1, i - 1) \o SubSeq(a, i + 1, Len(a))

\* a.splice(j, 0, e)
InsertAt(a, j, e) == SubSeq(a, 1, j - 1) \o <<e>> \o SubSeq(a, j, Len(a))

\* What the caller makes of array a: one element moved to another index, one
\* element removed, or a new element pushed.
Rearrangements(a) ==
    {InsertAt(RemoveAt(a, i), j, a[i]) : i \in DOMAIN a, j \in DOMAIN a}
    \cup {RemoveAt(a, i) : i \in DOMAIN a}
    \cup {Append(a, e) : e \in {k \in Ids : \A i \in DOMAIN a : a[i] # k}}

\* The default key extractor: the id field of the element.
KeyExtractor(element) == element

\* The index of the element with key k in array a.
IndexOfKey(a, k) == CHOOSE i \in DOMAIN a : KeyExtractor(a[i]) = k

KeysIn(a) == {KeyExtractor(a[i]) : i \in DOMAIN a}

\* The classification of the old indices and the new ones.
RemovedKeys(old, new) == KeysIn(old) \ KeysIn(new)

AddedKeys(old, new) == KeysIn(new) \ KeysIn(old)

MovedKeys(old, new) ==
    {k \in KeysIn(old) \cap KeysIn(new) : IndexOfKey(old, k) # IndexOfKey(new, k)}

\* The child nodes not in use: an added index takes the least of them.
FreeChildNodes(A) == {n \in ChildNodes : \A i \in DOMAIN A.children : A.children[i] # n}

\* The j-th of the new nodes, in increasing order.
RECURSIVE NthFree(_, _)
NthFree(F, j) ==
    LET m == CHOOSE n \in F : \A o \in F : n <= o
    IN  IF j = 1 THEN m ELSE NthFree(F \ {m}, j - 1)

\* Faulty variant: the children stay at their index, whatever element is there.
Reconcile_ByIndex(A, new) ==
    LET F == FreeChildNodes(A)
        added == {j \in DOMAIN new : j > Len(A.value)}
        rank(j) == Cardinality({i \in added : i <= j})
        children == [j \in DOMAIN new |->
                        IF j \in DOMAIN A.value THEN A.children[j] ELSE NthFree(F, rank(j))]
        kept == {children[j] : j \in DOMAIN new}
    IN  [value |-> new,
         children |-> children,
         key |-> [n \in ChildNodes |-> IF \E j \in DOMAIN new : children[j] = n
                                       THEN CHOOSE j \in DOMAIN new : children[j] = n
                                       ELSE NoChild],
         listeners |-> A.listeners \cap kept]

\* The reconciliation of the children of the array node A with the new array:
\* the child of an element that is still there is re-pointed to the element's
\* new index and relabelled, with its listeners; the child of a removed
\* element is disposed; an added element gets a new child node.
Reconcile(A, new) ==
    LET old == A.value
        F == FreeChildNodes(A)
        added == {j \in DOMAIN new : KeyExtractor(new[j]) \in AddedKeys(old, new)}
        rank(j) == Cardinality({i \in added : i <= j})
        children == [j \in DOMAIN new |->
                        IF j \in added THEN NthFree(F, rank(j))
                        ELSE A.children[IndexOfKey(old, KeyExtractor(new[j]))]]
        kept == {children[j] : j \in DOMAIN new}
    IN  [value |-> new,
         children |-> children,
         key |-> [n \in ChildNodes |-> IF \E j \in DOMAIN new : children[j] = n
                                       THEN CHOOSE j \in DOMAIN new : children[j] = n
                                       ELSE NoChild],
         listeners |-> A.listeners \cap kept]

\* The notifications of one write of the array: one shallow change at the
\* array node with the added, removed and moved keys, when there are any.
ArrayNotifications(old, new) ==
    IF old = new THEN <<>>
    ELSE << [cb |-> "arr", kind |-> "shallow", node |-> "arr",
             added |-> AddedKeys(old, new),
             removed |-> RemovedKeys(old, new),
             moved |-> MovedKeys(old, new)] >>

\* The array node of observable({ arr: [{ id: 1 }, ..., { id: MaxLen }] }).
NewArrayNode ==
    [value |-> [i \in 1 .. MaxLen |-> i],
     children |-> [i \in 1 .. MaxLen |-> i],
     key |-> [n \in ChildNodes |-> IF n <= MaxLen THEN n ELSE NoChild],
     listeners |-> {}]

\* ------------------------------------------------------------------ tracking contexts
\* At most MaxEvals tracked evaluations are started, each inside the one before.
MaxEvals == 2

Evals == 1 .. MaxEvals

\* The reads an evaluation makes: state.a.get() and state.o.get(true).
TrackedReads == {<<"a", FALSE>>, <<"o", TRUE>>}

\* No evaluation under way and none completed.
NoTracking == [stack |-> <<>>, started |-> {}, done |-> [ev \in Evals |-> {}]]

\* runTracked(fn), on entry: a new context is pushed and becomes the active one.
PushContext(T, ev) ==
    [T EXCEPT !.stack = Append(@, [ev |-> ev, reads |-> {}]),
              !.started = @ \cup {ev}]

\* A read of node n: recorded in the active context, and nowhere with none.
RecordRead(T, n, shallow) ==
    IF T.stack = <<>> THEN T
    ELSE [T EXCEPT !.stack[Len(T.stack)].reads = @ \cup {<<n, shallow>>}]

\* Faulty variant: the reads of the evaluation that ends are handed to its caller.
PopContext_Leaks(T) ==
    LET top == T.stack[Len(T.stack)]
        rest == SubSeq(T.stack, 1, Len(T.stack) - 1)
    IN  [T EXCEPT !.stack = IF rest = <<>> THEN rest
                            ELSE [rest EXCEPT ![Len(rest)].reads = @ \cup top.reads],
                  !.done[top.ev] = top.reads]

\* runTracked(fn), on completion: the context is popped, the caller's context
\* is the active one again, and the (node, mode) pairs read are returned.
PopContext(T) ==
    LET top == T.stack[Len(T.stack)]
    IN  [T EXCEPT !.stack = SubSeq(T.stack, 1, Len(T.stack) - 1),
                  !.done[top.ev] = top.reads]

\* ------------------------------------------------------------------ selectors
\* A value that is neither a function nor an observable.
PlainValue(v) == [kind |-> "value", val |-> v, node |-> NoNode]

\* The observable of node n.
Observable(n) == [kind |-> "observable", val |-> Undef, node |-> n]

\* A function that is a value: one a selector function returns.
FunctionValue == [kind |-> "function", val |-> Undef, node |-> NoNode]

\* The observable handed to computeSelector: state.o.x.
SelectorNodes == {"x"}

\* What a selector is when it is not a function, and what a selector function
\* returns.
SelectorResults ==
    {PlainValue(v) : v \in RawVals} \cup {Observable(n) : n \in SelectorNodes}
        \cup {FunctionValue}

\* The selector functions: the get() calls the body makes (none, or
\* state.a.get() and state.o.get(true)), and what it returns.
SelectorFunctions ==
    [kind : {"function"}, reads : {{}, TrackedReads}, result : SelectorResults]

\* Selector<T>: a value, an observable, or a function.
Selectors == (SelectorResults \ {FunctionValue}) \cup SelectorFunctions

\* e?: ObserveEvent<T>: the argument left out, or the event object.
NoEvent == "undefined"

ObserveEvent == "ObserveEvent"

Events == {NoEvent, ObserveEvent}

\* typeof c === 'function'
isFunction(c) == c.kind = "function"

\* The truthiness of a selector's value: undefined and 0 are falsy, objects
\* and functions are truthy.
TruthyValue(c) == c.kind = "value" => (c.val # Undef /\ c.val # 0)

\* isObservable(obs): obs && !!obs[symbolIsObservable]
isObservable(obs) == TruthyValue(obs) /\ obs.kind = "observable"

\* The get() calls in the body of a selector function, each recorded as a read.
RECURSIVE RecordReads(_, _)
RecordReads(T, reads) ==
    IF reads = {} THEN T
    ELSE LET rd == CHOOSE x \in reads : TRUE
         IN  RecordReads(RecordRead(T, rd[1], rd[2]), reads \ {rd})

\* Faulty variant: the observable's value is taken without get(), as peek()
\* takes it, so the read is recorded nowhere.
computeSelector_Peek(T, r, selector, e) ==
    LET called == isFunction(selector)
        c  == IF called THEN selector.result ELSE selector
        T1 == IF called THEN RecordReads(T, selector.reads) ELSE T
        calls == IF called THEN <<IF e # NoEvent THEN <<e>> ELSE <<>>>> ELSE <<>>
    IN  IF isObservable(c)
        THEN [tracking |-> T1, ret |-> PlainValue(r[c.node]), calls |-> calls]
        ELSE [tracking |-> T1, ret |-> c, calls |-> calls]

\* computeSelector(selector, e) with the tracking contexts T and the raw data
\* r: the contexts afterwards, the value returned, and the argument list of
\* every call made to the selector.
computeSelector(T, r, selector, e) ==
    LET called == isFunction(selector)
        \* c = e ? c(e) : c()
        c  == IF called THEN selector.result ELSE selector
        T1 == IF called THEN RecordReads(T, selector.reads) ELSE T
        calls == IF called THEN <<IF e # NoEvent THEN <<e>> ELSE <<>>>> ELSE <<>>
    IN  \* return isObservable(c) ? c.get() : c
        IF isObservable(c)
        THEN [tracking |-> RecordRead(T1, c.node, FALSE),
              ret |-> PlainValue(r[c.node]), calls |-> calls]
        ELSE [tracking |-> T1, ret |-> c, calls |-> calls]

\* computeSelector not yet called.
NoSelCall ==
    [state |-> "none", selector |-> PlainValue(Undef), e |-> NoEvent,
     ret |-> PlainValue(Undef), calls |-> <<>>]

\* ------------------------------------------------------------------ plain objects
\* mergeIntoObservable is called with plain objects: a target and up to
\* MaxSources sources.
MaxSources == 2

\* The primitives the objects hold.
MergeVals == {1, 2}

\* A value is a primitive, Undef, or the reference of an object of the heap.
RefBase == 100

Ref(a) == RefBase + a

AddrOf(v) == v - RefBase

\* isObject(v): v is a plain object.
isObject(v) == v >= RefBase

\* isObjectEmpty(v): the object has no key.
isObjectEmpty(h, v) == DOMAIN h[AddrOf(v)] = {}

\* !!v
Truthy(v) == v # Undef /\ v # 0

\* o[key]
GetProp(h, o, key) ==
    IF isObject(o) /\ key \in DOMAIN h[AddrOf(o)] THEN h[AddrOf(o)][key] ELSE Undef

\* o[key] = v
SetProp(h, o, key, v) ==
    LET obj == h[AddrOf(o)]
    IN  [h EXCEPT ![AddrOf(o)] = [x \in DOMAIN obj \cup {key} |->
                                     IF x = key THEN v ELSE obj[x]]]

\* The address of the next object created.
Fresh(h) == 1 + CHOOSE a \in DOMAIN h : \A b \in DOMAIN h : b <= a

\* {}
NewObject(h) == h @@ (Fresh(h) :> <<>>)

\* Faulty variant: the key of the target is always given a new object.
needsNewObject_Always(tv) == TRUE

\* !value[key] || !isObject(value[key])
needsNewObject(tv) == ~Truthy(tv) \/ ~isObject(tv)

RECURSIVE mergeIntoObservable(_, _, _)

\* for (const key in source) { ... }, for a target that is no observable.
RECURSIVE MergeKeys(_, _, _, _)
MergeKeys(h, target, source, keys) ==
    IF keys = {} THEN h
    ELSE LET key == CHOOSE k \in keys : TRUE
             sv == GetProp(h, source, key)
         IN  IF isObject(sv) /\ ~isObjectEmpty(h, sv)
             THEN LET h1 == IF needsNewObject(GetProp(h, target, key))
                            THEN SetProp(NewObject(h), target, key, Ref(Fresh(h)))
                            ELSE h
                      h2 == mergeIntoObservable(h1, GetProp(h1, target, key), <<sv>>).heap
                  IN  MergeKeys(h2, target, source, keys \ {key})
             ELSE MergeKeys(SetProp(h, target, key, sv), target, source, keys \ {key})

\* Faulty variant: the sources after the first are dropped.
mergeIntoObservable_FirstSource(h, target, sources) ==
    IF sources = <<>> THEN [heap |-> h, ret |-> target]
    ELSE [heap |-> IF isObject(target) /\ isObject(Head(sources))
                   THEN MergeKeys(h, target, Head(sources), DOMAIN h[AddrOf(Head(sources))])
                   ELSE h,
          ret |-> target]

\* mergeIntoObservable(target, ...sources) for a target that is no observable:
\* the heap it leaves and the value it returns.
mergeIntoObservable(h, target, sources) ==
    IF sources = <<>> THEN [heap |-> h, ret |-> target]
    ELSE LET source == Head(sources)
             h1 == IF isObject(target) /\ isObject(source)
                   THEN MergeKeys(h, target, source, DOMAIN h[AddrOf(source)])
                   ELSE h
         IN  mergeIntoObservable(h1, target, Tail(sources))

\* The arguments of the call, as object literals. A key holds a primitive or
\* undefined, or is absent (NoKey); the key k can also hold an object.
NoKey == -2

Scalars == MergeVals \cup {Undef, NoKey}

\* What the target holds at k, and what a source does.
TargetK == {<<"s", v, NoKey>> : v \in Scalars}
           \cup {<<"o", y, z>> : y \in Scalars, z \in {NoKey, 1}}

SourceK == {<<"s", v, NoKey>> : v \in Scalars} \cup {<<"o", y, NoKey>> : y \in Scalars}

\* A source is undefined or an object literal { k: ... }.
SourceArgs == {<<"u", Undef, NoKey>>} \cup SourceK

\* The target is at address 1 and its object at k at 2; source i is at
\* 2 i + 1 and its object at k at 2 i + 2.
TargetAddr == 1

SourceAddr(i) == 2 * i + 1

\* The object literal { y: ..., z: ... } of shape sh.
NestedObject(sh) ==
    [key \in {x \in {"y", "z"} : (x = "y" /\ sh[2] # NoKey) \/ (x = "z" /\ sh[3] # NoKey)} |->
        IF key = "y" THEN sh[2] ELSE sh[3]]

\* The objects of the literal { k: sh, j: j } built at address a.
Literal(a, sh, j) ==
    LET keys == {x \in {"k", "j"} : (x = "k" /\ ~(sh[1] = "s" /\ sh[2] = NoKey))
                                     \/ (x = "j" /\ j # NoKey)}
        root == [key \in keys |-> IF key = "j" THEN j
                                  ELSE IF sh[1] = "o" THEN Ref(a + 1) ELSE sh[2]]
    IN  IF sh[1] = "o" THEN (a :> root) @@ ((a + 1) :> NestedObject(sh))
        ELSE (a :> root)

\* The heap holding the target and the sources of the argument list args.
RECURSIVE ArgsHeap(_, _)
ArgsHeap(args, i) ==
    IF i > Len(args) THEN <<>>
    ELSE IF args[i][1] = "u" THEN ArgsHeap(args, i + 1)
    ELSE Literal(SourceAddr(i), args[i], NoKey) @@ ArgsHeap(args, i + 1)

\* The values passed as sources.
SourceValues(args) ==
    [i \in DOMAIN args |-> IF args[i][1] = "u" THEN Undef ELSE Ref(SourceAddr(i))]

\* No call of mergeIntoObservable.
NoCall == [state |-> "none", target |-> Undef, sources |-> <<>>, ret |-> Undef,
           before |-> <<>>]

\* ------------------------------------------------------------------ operations
\* The engine's state when an operation starts: nothing called, delivered or
\* raised yet.
St == [raw |-> raw, locked |-> locked, depth |-> depth, pending |-> pending,
       lst |-> lst, eff |-> eff, cbCount |-> cbCount,
       log |-> <<>>, flushed |-> <<>>, err |-> "none",
       reruns |-> [e \in EIds |-> 0]]

\* The engine's state when the operation returns.
Commit(s) ==
    /\ raw' = s.raw
    /\ locked' = s.locked
    /\ depth' = s.depth
    /\ pending' = s.pending
    /\ lst' = s.lst
    /\ eff' = s.eff
    /\ cbCount' = s.cbCount
    /\ log' = s.log
    /\ flushed' = s.flushed
    /\ err' = s.err
    /\ UNCHANGED <<arrayNode, tracking, heap, mergeCall, selCall>>

\* The batch history after an operation that is no write and closes no batch:
\* kept while a batch is open, and with no batch open there is none to remember.
Settled ==
    /\ written' = IF depth = 0 THEN {} ELSE written
    /\ nwrites' = IF depth = 0 THEN 0 ELSE nwrites
    /\ batchStart' = IF depth = 0 THEN raw' ELSE batchStart

Init ==
    /\ raw \in {r \in [Leaves -> RawVals] : r["a"] # Undef /\ r["c"] = Undef}
    /\ locked = [t \in Roots |-> FALSE]
    /\ depth = 0
    /\ pending = <<>>
    /\ lst = [l \in LIds |-> NoListener]
    /\ eff = [e \in EIds |-> NoEffect]
    /\ cbCount = 0
    /\ log = <<>>
    /\ flushed = <<>>
    /\ err = "none"
    /\ op = [name |-> "init", node |-> NoNode, val |-> Undef]
    /\ written = {}
    /\ nwrites = 0
    /\ batchStart = raw
    /\ lockReq = [t \in Roots |-> FALSE]
    /\ arrayNode = NewArrayNode
    /\ tracking = NoTracking
    /\ heap = <<>>
    /\ mergeCall = NoCall
    /\ selCall = NoSelCall

\* beginBatch()
BeginBatch ==
    /\ depth < MaxDepth
    /\ Commit(BeginBatchOp(St))
    /\ op' = [name |-> "beginBatch", node |-> NoNode, val |-> Undef]
    /\ written' = IF depth = 0 THEN {} ELSE written
    /\ nwrites' = IF depth = 0 THEN 0 ELSE nwrites
    /\ batchStart' = IF depth = 0 THEN raw ELSE batchStart
    /\ UNCHANGED lockReq

\* endBatch()
EndBatch ==
    /\ depth > 0
    /\ Commit(EndBatchOp(St))
    /\ op' = [name |-> "endBatch", node |-> NoNode, val |-> Undef]
    /\ UNCHANGED <<written, nwrites, batchStart, lockReq>>

\* A write of v to leaf n by the caller: node.set(v), or node.delete() for Undef.
Write(name, n, v) ==
    LET s == SetValue(St, n, v)
    IN  /\ depth > 0 => nwrites < MaxWrites
        /\ Commit(s)
        /\ op' = [name |-> name, node |-> n, val |-> v]
        /\ written' = IF s.err # "none" THEN written
                      ELSE IF depth = 0 THEN {n}
                      ELSE written \cup {n}
        /\ nwrites' = IF s.err # "none" THEN nwrites
                      ELSE IF depth = 0 THEN 1
                      ELSE nwrites + 1
        /\ batchStart' = IF s.err = "none" /\ depth = 0 THEN raw ELSE batchStart
        /\ UNCHANGED lockReq

\* state.a.set(v), state.o.x.set(v)
Set == \E n \in UserLeaves, v \in Vals : Write("set", n, v)

\* state.o.x.delete()
Delete == \E n \in Deletable : raw[n] # Undef /\ Write("delete", n, Undef)

\* node.onChange(cb, { trackingType, immediate })
Subscribe ==
    \E l \in LIds, n \in Nodes, shallow \in BOOLEAN, immediate \in BOOLEAN :
        /\ ~lst[l].active
        /\ <<n, shallow, immediate>> \in SubscribeOptions(l)
        /\ Commit([St EXCEPT !.lst[l] = [active |-> TRUE, node |-> n,
                                         shallow |-> shallow, immediate |-> immediate]])
        /\ op' = [name |-> "onChange", node |-> n, val |-> Undef]
        /\ Settled
        /\ UNCHANGED lockReq

\* Faulty variant: with notifications pending, the listener stays registered.
Dispose_AfterFlush ==
    \E l \in LIds :
        /\ lst[l].active
        /\ Commit(IF pending = <<>> THEN [St EXCEPT !.lst[l] = NoListener] ELSE St)
        /\ op' = [name |-> "dispose", node |-> lst[l].node, val |-> Undef]
        /\ Settled
        /\ UNCHANGED lockReq

\* The disposer onChange() returned.
Dispose ==
    \E l \in LIds :
        /\ lst[l].active
        /\ Commit([St EXCEPT !.lst[l] = NoListener])
        /\ op' = [name |-> "dispose", node |-> lst[l].node, val |-> Undef]
        /\ Settled
        /\ UNCHANGED lockReq

\* lockObservable(obs, value), also with an obs that is no observable.
Lock ==
    \E obs \in Nodes \cup {NoNode}, value \in BOOLEAN :
        /\ Commit(lockObservable(St, obs, value))
        /\ op' = [name |-> "lock", node |-> obs, val |-> Undef]
        /\ lockReq' = IF obs \in Nodes THEN [lockReq EXCEPT ![RootOf(obs)] = value]
                      ELSE lockReq
        /\ Settled

\* observe(selector): the first run happens on registration.
ObserveOf(sels) ==
    \E sel \in sels :
        /\ eff["obs"].state = "none"
        /\ Commit(RunEffect([St EXCEPT !.eff["obs"] =
                                [NoEffect EXCEPT !.state = "tracked", !.sel = sel]], "obs"))
        /\ op' = [name |-> "observe", node |-> NoNode, val |-> Undef]
        /\ Settled
        /\ UNCHANGED lockReq

Observe == ObserveOf(ObserveSels)

ObserveDerived == ObserveOf(DerivedSels)

\* observe(() => state.a.get() > 0 ? state.o.x.get() : 0)
ObserveCond == ObserveOf({"cond"})

\* observe(() => state.a.set(state.a.get() > 0 ? 0 : 1))
ObserveToggle == ObserveOf({"toggle"})

\* observe(() => state.o.x.set(state.a.get()))
ObserveCopy == ObserveOf({"copy"})

\* c = computed(() => state.a.get() + state.o.x.get())
Computed ==
    /\ eff["comp"].state = "none"
    /\ Commit(RunEffect([St EXCEPT !.eff["comp"] =
                            [NoEffect EXCEPT !.state = "tracked", !.sel = "total"]], "comp"))
    /\ op' = [name |-> "computed", node |-> "c", val |-> Undef]
    /\ Settled
    /\ UNCHANGED lockReq

\* when(() => state.a.get() > 0, cb)
When ==
    /\ eff["when"].state = "none"
    /\ Commit(RunEffect([St EXCEPT !.eff["when"] =
                            [NoEffect EXCEPT !.state = "tracked", !.sel = "pos"]], "when"))
    /\ op' = [name |-> "when", node |-> NoNode, val |-> Undef]
    /\ Settled
    /\ UNCHANGED lockReq

\* The disposer observe() or when() returned.
DisposeEffect(e) ==
    /\ eff[e].state = "tracked"
    /\ Commit([St EXCEPT !.eff[e].state = "disposed", !.eff[e].deps = {}])
    /\ op' = [name |-> "dispose", node |-> NoNode, val |-> Undef]
    /\ Settled
    /\ UNCHANGED lockReq

DisposeObserve == DisposeEffect("obs")

DisposeWhen == DisposeEffect("when")

\* The state after two listeners were registered on a new observable:
\*   state.onChange(cb1); state.o.x.onChange(cb2, { immediate: true })
InitLock ==
    /\ raw \in {r \in [Leaves -> RawVals] : r["a"] # Undef /\ r["c"] = Undef}
    /\ locked = [t \in Roots |-> FALSE]
    /\ depth = 0
    /\ pending = <<>>
    /\ lst = [l \in LIds |->
                IF l = "l1"
                THEN [active |-> TRUE, node |-> "root", shallow |-> FALSE, immediate |-> FALSE]
                ELSE [active |-> TRUE, node |-> "x", shallow |-> FALSE, immediate |-> TRUE]]
    /\ eff = [e \in EIds |-> NoEffect]
    /\ cbCount = 0
    /\ log = <<>>
    /\ flushed = <<>>
    /\ err = "none"
    /\ op = [name |-> "onChange", node |-> "x", val |-> Undef]
    /\ written = {}
    /\ nwrites = 0
    /\ batchStart = raw
    /\ lockReq = [t \in Roots |-> FALSE]
    /\ arrayNode = NewArrayNode
    /\ tracking = NoTracking
    /\ heap = <<>>
    /\ mergeCall = NoCall
    /\ selCall = NoSelCall

\* The engine's variables, for the operations on the array.
engineVars == <<raw, locked, depth, pending, lst, eff, cbCount, flushed, err,
                written, nwrites, batchStart, lockReq>>

\* state.arr.set(new), with no batch open: the children are reconciled and the
\* change is delivered.
SetArray ==
    \E new \in Rearrangements(arrayNode.value) :
        /\ depth = 0
        /\ arrayNode' = Reconcile(arrayNode, new)
        /\ log' = ArrayNotifications(arrayNode.value, new)
        /\ op' = [name |-> "setArray", node |-> "arr", val |-> Undef]
        /\ UNCHANGED <<engineVars, tracking, heap, mergeCall, selCall>>

\* state.arr[i].onChange(cb): a deep listener on the child node at index i.
ListenChild ==
    \E i \in DOMAIN arrayNode.value :
        /\ arrayNode.listeners = {}
        /\ arrayNode' = [arrayNode EXCEPT !.listeners = @ \cup {arrayNode.children[i]}]
        /\ log' = <<>>
        /\ op' = [name |-> "onChange", node |-> "arr", val |-> Undef]
        /\ UNCHANGED <<engineVars, tracking, heap, mergeCall, selCall>>

\* A tracked evaluation starts, inside the one under way if there is one.
BeginTracked ==
    \E ev \in Evals :
        /\ ev \notin tracking.started
        /\ \A o \in Evals : o < ev => o \in tracking.started
        /\ tracking' = PushContext(tracking, ev)
        /\ op' = [name |-> "runTracked", node |-> NoNode, val |-> ev]
        /\ log' = <<>>
        /\ UNCHANGED <<engineVars, arrayNode, heap, mergeCall, selCall>>

\* node.get() or node.get(true), inside an evaluation or outside all of them;
\* op.val is 1 for a shallow read.
Get ==
    \E rd \in TrackedReads :
        /\ tracking' = RecordRead(tracking, rd[1], rd[2])
        /\ op' = [name |-> "get", node |-> rd[1], val |-> IF rd[2] THEN 1 ELSE 0]
        /\ log' = <<>>
        /\ UNCHANGED <<engineVars, arrayNode, heap, mergeCall, selCall>>

\* The evaluation under way completes.
EndTracked ==
    /\ tracking.stack # <<>>
    /\ tracking' = PopContext(tracking)
    /\ op' = [name |-> "endTracked", node |-> NoNode, val |-> Undef]
    /\ log' = <<>>
    /\ UNCHANGED <<engineVars, arrayNode, heap, mergeCall, selCall>>

\* computeSelector(selector, e), inside an evaluation or outside all of them.
ComputeSelector ==
    \E selector \in Selectors, e \in Events :
        LET R == computeSelector(tracking, raw, selector, e)
        IN  /\ tracking' = R.tracking
            /\ selCall' = [state |-> "returned", selector |-> selector, e |-> e,
                           ret |-> R.ret, calls |-> R.calls]
            /\ op' = [name |-> "computeSelector", node |-> NoNode, val |-> Undef]
            /\ log' = <<>>
            /\ UNCHANGED <<engineVars, arrayNode, heap, mergeCall>>

\* The state before mergeIntoObservable(target, ...sources) is called with
\* object literals: a target { k, j } and up to MaxSources sources.
InitMerge ==
    /\ raw = [l \in Leaves |-> IF l = "a" THEN 0 ELSE Undef]
    /\ locked = [t \in Roots |-> FALSE]
    /\ depth = 0
    /\ pending = <<>>
    /\ lst = [l \in LIds |-> NoListener]
    /\ eff = [e \in EIds |-> NoEffect]
    /\ cbCount = 0
    /\ log = <<>>
    /\ flushed = <<>>
    /\ err = "none"
    /\ op = [name |-> "init", node |-> NoNode, val |-> Undef]
    /\ written = {}
    /\ nwrites = 0
    /\ batchStart = raw
    /\ lockReq = [t \in Roots |-> FALSE]
    /\ arrayNode = NewArrayNode
    /\ tracking = NoTracking
    /\ selCall = NoSelCall
    /\ \E tk \in TargetK, tj \in {NoKey, 1}, n \in 0 .. MaxSources :
          \E args \in [1 .. n -> SourceArgs] :
              /\ heap = Literal(TargetAddr, tk, tj) @@ ArgsHeap(args, 1)
              /\ mergeCall = [state |-> "args", target |-> Ref(TargetAddr),
                              sources |-> SourceValues(args), ret |-> Undef,
                              before |-> <<>>]

\* mergeIntoObservable(target, ...sources)
Merge ==
    /\ mergeCall.state = "args"
    /\ LET r == mergeIntoObservable(heap, mergeCall.target, mergeCall.sources)
       IN  /\ heap' = r.heap
           /\ mergeCall' = [mergeCall EXCEPT !.state = "returned", !.ret = r.ret,
                                             !.before = heap]
    /\ op' = [name |-> "merge", node |-> NoNode, val |-> Undef]
    /\ log' = <<>>
    /\ UNCHANGED <<engineVars, arrayNode, tracking, selCall>>

\* target.k.y = v, by the caller after the merge.
WriteTarget ==
    \E v \in MergeVals :
        /\ mergeCall.state = "returned"
        /\ isObject(GetProp(heap, mergeCall.target, "k"))
        /\ heap' = SetProp(heap, GetProp(heap, mergeCall.target, "k"), "y", v)
        /\ mergeCall' = [mergeCall EXCEPT !.state = "written"]
        /\ op' = [name |-> "write", node |-> NoNode, val |-> v]
        /\ log' = <<>>
        /\ UNCHANGED <<engineVars, arrayNode, tracking, selCall>>

\* ------------------------------------------------------------------ specifications
\* The registry of onChange listeners, batching and locking.
Next ==
    \/ BeginBatch
    \/ EndBatch
    \/ Set
    \/ Delete
    \/ Subscribe
    \/ Dispose

Spec == Init /\ [][Next]_vars

\* observe() with batching.
NextEffects ==
    \/ BeginBatch
    \/ EndBatch
    \/ Set
    \/ Delete
    \/ Observe
    \/ DisposeObserve

SpecEffects == Init /\ [][NextEffects]_vars

\* computed(), and observe() of what it computes, with batching.
NextComputed ==
    \/ BeginBatch
    \/ EndBatch
    \/ Set
    \/ Delete
    \/ ObserveDerived
    \/ Computed

SpecComputed == Init /\ [][NextComputed]_vars

\* when() with batching.
NextWhen ==
    \/ BeginBatch
    \/ EndBatch
    \/ Set
    \/ When
    \/ DisposeWhen

SpecWhen == Init /\ [][NextWhen]_vars

\* Locking, with two listeners registered.
NextLock ==
    \/ BeginBatch
    \/ EndBatch
    \/ Set
    \/ Delete
    \/ Lock

SpecLock == InitLock /\ [][NextLock]_vars

\* Disposal of listeners and effects, with batching.
NextDispose ==
    \/ BeginBatch
    \/ EndBatch
    \/ Set
    \/ Dispose
    \/ When
    \/ DisposeWhen

SpecDispose == InitLock /\ [][NextDispose]_vars

\* observe() of a selector whose reads depend on the state.
NextDynamic ==
    \/ BeginBatch
    \/ EndBatch
    \/ Set
    \/ Delete
    \/ ObserveCond

SpecDynamic == Init /\ [][NextDynamic]_vars

\* observe() of a selector that writes what it reads.
NextCircular ==
    \/ BeginBatch
    \/ EndBatch
    \/ Set
    \/ ObserveToggle
    \/ DisposeObserve

SpecCircular == Init /\ [][NextCircular]_vars

\* observe() of a selector that writes another node, with two listeners.
NextReentrant ==
    \/ BeginBatch
    \/ EndBatch
    \/ Set
    \/ Delete
    \/ ObserveCopy

SpecReentrant == InitLock /\ [][NextReentrant]_vars

\* The keyed array, its child nodes and their listeners.
NextArray ==
    \/ SetArray
    \/ ListenChild

\* observable({ a: 0, o: {}, arr: [{ id: 1 }, ..., { id: MaxLen }] })
InitArray == Init /\ raw["a"] = 0 /\ raw["x"] = Undef

SpecArray == InitArray /\ [][NextArray]_vars

\* Nested tracked evaluations.
NextTracking ==
    \/ BeginTracked
    \/ Get
    \/ EndTracked

SpecTracking == InitArray /\ [][NextTracking]_vars

\* Selectors computed inside and outside tracked evaluations.
NextSelector ==
    \/ BeginTracked
    \/ ComputeSelector
    \/ EndTracked

\* observable({ a: 0, o: { x } }), with or without x.
InitSelector == Init /\ raw["a"] = 0

SpecSelector == InitSelector /\ [][NextSelector]_vars

\* mergeIntoObservable on plain objects.
NextMerge ==
    \/ Merge
    \/ WriteTarget

SpecMerge == InitMerge /\ [][NextMerge]_vars

\* ------------------------------------------------------------------ properties
\* The calls of callback id made by the last operation.
Calls(id) == SelectSeq(log, LAMBDA e : e.cb = id)

\* The last operation closed a batch: the outermost endBatch(), or a write made
\* with no batch open.
BatchClosed == depth = 0 /\ op.name \in {"endBatch", "set", "delete"} /\ err = "none"

\* The last operation was a write accepted inside an open batch.
WroteInBatch == depth > 0 /\ op.name \in {"set", "delete"} /\ err = "none"

\* Listener l is a deep listener registered on leaf n.
DeepOn(l, n) == lst[l].active /\ ~lst[l].shallow /\ lst[l].node = n

\* Listener l was called once, with the node's value now and, as previous, the
\* node's value when the batch opened.
OnceWithNetChange(l, n) ==
    /\ Len(Calls(l)) = 1
    /\ Calls(l)[1].value = raw[n]
    /\ Calls(l)[1].prev = batchStart[n]

\* C1 as stated: after N >= 1 writes to a node inside one batch, every listener
\* subscribed to that node is notified exactly once, when the batch closes (and
\* not before), with the node's final value and, as getPrevious(), its value
\* before the first write of the batch.
C1_AsStated ==
    \A l \in LIds, n \in written :
        DeepOn(l, n) =>
            /\ depth > 0 => Calls(l) = <<>>
            /\ BatchClosed => OnceWithNetChange(l, n)

\* C1, amended: the same for every listener registered without the immediate
\* option; a listener registered with immediate: true is called at each write
\* of the batch, with the value that write replaced as previous.
C1_Coalescing ==
    \A l \in LIds, n \in written :
        DeepOn(l, n) =>
            /\ ~lst[l].immediate =>
                /\ depth > 0 => Calls(l) = <<>>
                /\ BatchClosed => OnceWithNetChange(l, n)
            /\ (lst[l].immediate /\ WroteInBatch /\ op.node = n) =>
                /\ Len(Calls(l)) = 1
                /\ Calls(l)[1].value = op.val

\* C1 witness: a batch of two or more writes to one node closed, and the listener on
\* that node was called once with a value that differs from the previous one.
C1_Witness ==
    /\ op.name = "endBatch"
    /\ BatchClosed
    /\ \E l \in LIds, n \in written :
        /\ DeepOn(l, n)
        /\ ~lst[l].immediate
        /\ written = {n} /\ nwrites >= 2
        /\ OnceWithNetChange(l, n)
        /\ raw[n] # batchStart[n]

\* The log entry log[i] is a call of a listener registered with immediate: true.
ImmediateCall(i) == log[i].cb \in LIds /\ lst[log[i].cb].immediate

\* What C2 says of the flush: nothing is delivered while a batch is open, every
\* write of the open batch is still pending, and nothing is pending once the
\* outermost endBatch() has returned.
FlushOnlyAtOutermost ==
    /\ depth > 0 => flushed = <<>> /\ written \subseteq PendingNodes(pending)
    /\ depth = 0 => pending = <<>>

\* C2 as stated: for any well-nested beginBatch()/endBatch() calls with writes
\* in between, no listener is invoked while the nesting depth is greater than
\* 0, and the flush happens only at the endBatch() that returns the depth to 0.
C2_AsStated ==
    /\ depth > 0 => log = <<>>
    /\ FlushOnlyAtOutermost

\* C2, amended: no listener registered without the immediate option is invoked
\* while the nesting depth is greater than 0 (one registered with immediate:
\* true is called at the write), and the flush happens only at the endBatch()
\* that returns the depth to 0.
C2_NestedBatches ==
    /\ depth > 0 => \A i \in DOMAIN log : ImmediateCall(i)
    /\ FlushOnlyAtOutermost

\* C2 witness: an inner endBatch() returned, the depth is 1, and a write is
\* still pending for a listener that waits for it.
C2_Witness ==
    /\ op.name = "endBatch"
    /\ depth = 1
    /\ \E l \in LIds : /\ lst[l].active
                       /\ ~lst[l].immediate
                       /\ Hit(lst[l].node, lst[l].shallow, pending, raw)

\* The key sequence from node m down to leaf n of the state tree
\* { a, o: { x } }, written out; <<"?">> where m is neither n nor above it.
KeyPath(m, n) == CASE m = n -> <<>>
                   [] m = "root" /\ n = "a" -> <<"a">>
                   [] m = "root" /\ n = "x" -> <<"o", "x">>
                   [] m = "o" /\ n = "x" -> <<"x">>
                   [] OTHER -> <<"?">>

\* Listener l is delivered by the operation that just closed the batch: it
\* waits for the batch to close, or the batch was the one write.
DeliveredAtClose(l) == lst[l].active /\ (~lst[l].immediate \/ op.name # "endBatch")

C7_UpwardPropagation ==
    /\ BatchClosed =>
        \A l \in LIds :
            (DeliveredAtClose(l) /\ ~lst[l].shallow) =>
                LET below == {n \in written : KeyPath(lst[l].node, n) # <<"?">>}
                IN  IF below = {} THEN Calls(l) = <<>>
                    ELSE /\ Len(Calls(l)) = 1
                         /\ {Calls(l)[1].changes[j].path :
                                j \in DOMAIN Calls(l)[1].changes}
                              = {KeyPath(lst[l].node, n) : n \in below}
    /\ WroteInBatch =>
        \A l \in LIds :
            (lst[l].active /\ ~lst[l].shallow) =>
                IF lst[l].immediate /\ KeyPath(lst[l].node, op.node) # <<"?">>
                THEN /\ Len(Calls(l)) = 1
                     /\ Calls(l)[1].changes[1].path = KeyPath(lst[l].node, op.node)
                ELSE Calls(l) = <<>>

\* C7 witness: o.x changed; the listener on root was called with the path
\* <<"o", "x">> and the listener on o.x with the empty path.
C7_Witness ==
    /\ BatchClosed
    /\ written = {"x"}
    /\ DeepOn("l1", "root") /\ DeepOn("l2", "x")
    /\ Len(Calls("l1")) = 1 /\ Calls("l1")[1].changes[1].path = <<"o", "x">>
    /\ Len(Calls("l2")) = 1 /\ Calls("l2")[1].changes[1].path = <<>>

\* Effect e is registered and not disposed.
Tracked(e) == eff[e].state = "tracked"

\* The last operation registered effect e, which runs it a first time.
Created(e) == op.name = (CASE e = "obs" -> "observe" [] e = "comp" -> "computed" [] OTHER -> "when")

\* The nodes delivered by the last operation's flush.
FlushedNodes == PendingNodes(flushed)

\* C3 as stated: an observe effect or a computed that depends on several nodes,
\* all written inside one batch, does not run while the batch is open, and runs
\* exactly once when the batch closes, on the final value of every node.
C3_AsStated ==
    \A e \in {"obs", "comp"} :
        (Tracked(e) /\ ~Created(e)) =>
            /\ depth > 0 => Calls(e) = <<>>
            /\ (op.name = "endBatch" /\ depth = 0
                    /\ \A d \in eff[e].deps : d[1] \in FlushedNodes) =>
                  /\ Len(Calls(e)) = 1
                  /\ Calls(e)[1].value = Result(eff[e].sel, raw)

\* C3, amended: that holds of an observe effect. A computed is delivered
\* immediately: it runs again at each write of the batch, on the state that
\* write leaves, so its node always holds the value of its selector; what
\* observes the computed is called once, when the batch closes.
C3_BatchedEffect ==
    /\ (Tracked("obs") /\ ~Created("obs")) =>
            /\ depth > 0 => Calls("obs") = <<>>
            /\ (op.name = "endBatch" /\ depth = 0
                    /\ \A d \in eff["obs"].deps : d[1] \in FlushedNodes) =>
                  /\ Len(Calls("obs")) = 1
                  /\ Calls("obs")[1].value = Result(eff["obs"].sel, raw)
    /\ Tracked("comp") =>
            /\ raw["c"] = Num(raw["a"]) + Num(raw["x"])
            /\ WroteInBatch => Len(Calls("comp")) = 1

\* C3 witness: state.a and state.o.x were both changed in one batch, and the
\* effect observing their sum ran once, on the final sum.
C3_Witness ==
    /\ op.name = "endBatch" /\ depth = 0
    /\ Tracked("obs") /\ eff["obs"].sel = "sum"
    /\ Tracked("comp")
    /\ written = {"a", "x"}
    /\ raw["a"] # batchStart["a"] /\ raw["x"] # batchStart["x"]
    /\ Len(Calls("obs")) = 1
    /\ Calls("obs")[1].value = Num(raw["a"]) + Num(raw["x"])

\* Whether a write to leaf n, taking the raw data from r0 to r1, changes what
\* the selector read, for each selector written out.
DependsOn(sel, n, r0, r1) ==
    CASE sel = "a" -> n = "a"
      [] sel = "x" -> n = "x"
      [] sel = "sum" -> TRUE
      [] sel = "o" -> n = "x"
      [] sel = "keys" -> n = "x" /\ ((r0["x"] = Undef) # (r1["x"] = Undef))
      [] OTHER -> FALSE

\* C4: a write made while the batch depth is 0 is delivered through a batch of
\* its own around that one write: when the call returns the depth is 0 again,
\* nothing is pending, exactly that write was flushed, and an effect that
\* depends on the written node has re-run once, on the state the write left;
\* an effect that does not depend on it has not run.
C4_Step ==
    (depth = 0 /\ op'.name \in {"set", "delete"} /\ err' = "none") =>
        /\ depth' = 0
        /\ pending' = <<>>
        /\ flushed' = << <<op'.node, raw[op'.node]>> >>
        /\ raw'[op'.node] = op'.val
        /\ Tracked("obs") =>
            IF DependsOn(eff["obs"].sel, op'.node, raw, raw')
            THEN /\ Len(Calls("obs")') = 1
                 /\ Calls("obs")'[1].value = Result(eff["obs"].sel, raw')
            ELSE Calls("obs")' = <<>>

C4_UnbatchedWrite == [][C4_Step]_vars

\* C4 witness: an unbatched write to one of the two nodes the effect sums; the
\* effect re-ran on the intermediate state.
C4_Witness ==
    /\ op.name = "set" /\ depth = 0 /\ err = "none"
    /\ Tracked("obs") /\ eff["obs"].sel = "sum"
    /\ Len(Calls("obs")) = 1
    /\ Calls("obs")[1].value # Calls("obs")[1].prev

\* The leaves at or below the nodes the selector reads with get().
ReadLeaves(sel) == CASE sel = "a" -> {"a"}
                     [] sel = "x" -> {"x"}
                     [] sel = "sum" -> {"a", "x"}
                     [] sel = "o" -> {"x"}
                     [] OTHER -> {}

\* C5: when a batch closes, an effect whose last evaluation read A with get()
\* has re-run (once) if the batch changed a leaf at or below A, and has not
\* run if only other nodes were written.
C5_DependencyPrecision ==
    (BatchClosed /\ Tracked("obs") /\ eff["obs"].sel \in {"a", "x", "sum", "o"}) =>
        /\ (\E n \in ReadLeaves(eff["obs"].sel) : raw[n] # batchStart[n]) =>
                Len(Calls("obs")) = 1
        /\ written \cap ReadLeaves(eff["obs"].sel) = {} => Calls("obs") = <<>>

\* C5 witness: the effect reads state.a only; state.o.x changed and the effect
\* did not run.
C5_Witness ==
    /\ BatchClosed
    /\ Tracked("obs") /\ eff["obs"].sel = "a"
    /\ written = {"x"} /\ raw["x"] # batchStart["x"]
    /\ Calls("obs") = <<>>

\* C8: when(() => state.a.get() > 0, cb) calls cb at most once; while it is
\* listening the predicate has only been falsy and cb has not been called; at
\* the evaluation that is truthy it calls cb and disposes, after which no
\* operation evaluates the predicate or calls cb; and with no batch open it is
\* not left listening on a state where the predicate is truthy.
C8_OneShotWhen ==
    /\ cbCount <= 1
    /\ eff["when"].state \in {"none", "tracked"} =>
            /\ cbCount = 0
            /\ \A i \in DOMAIN Calls("when") :
                  Calls("when")[i].kind = "when" /\ Calls("when")[i].value = FALSE
    /\ eff["when"].state = "disposed" =>
            \/ Calls("when") = <<>>
            \/ /\ cbCount = 1
               /\ Len(Calls("when")) = 2
               /\ Calls("when")[1].kind = "when" /\ Calls("when")[1].value = TRUE
               /\ Calls("when")[2].kind = "whenCb"
    /\ (depth = 0 /\ Tracked("when")) => ~(raw["a"] > 0)

\* C8 witness: a write made state.a positive and cb was called, once.
C8_Witness ==
    /\ op.name = "set" /\ op.node = "a"
    /\ cbCount = 1
    /\ Len(Calls("when")) = 2
    /\ batchStart["a"] = 0

\* C9: with c = computed(a + o.x) and an effect L that reads a and c, every run
\* of L reads a value of c that is up to date with a (c - a is o.x), a flush
\* caused by a write to a runs L once, and in an operation that runs both the
\* computed runs first.
C9_ComputedOrdering ==
    (Tracked("comp") /\ Tracked("obs") /\ eff["obs"].sel = "diff") =>
        /\ \A i \in DOMAIN Calls("obs") : Calls("obs")[i].value = Num(raw["x"])
        /\ (BatchClosed /\ "a" \in written) => Len(Calls("obs")) = 1
        /\ \A i, j \in DOMAIN log :
              (log[i].cb = "comp" /\ log[j].cb = "obs") => i < j

\* C9 witness: an unbatched write changed a; the computed and L both ran.
C9_Witness ==
    /\ op.name = "set" /\ op.node = "a" /\ depth = 0
    /\ raw["a"] # batchStart["a"]
    /\ Tracked("comp") /\ Tracked("obs") /\ eff["obs"].sel = "diff"
    /\ Len(Calls("comp")) = 1
    /\ Len(Calls("obs")) = 1

\* C10: a write to a node of a tree that lockObservable(_, true) locked is
\* rejected with WriteRejected: the raw data and the pending set are unchanged
\* and no listener is called; once lockObservable(_, false) was called on the
\* tree the write is accepted and stores its value.
C10_Step ==
    op'.name \in {"set", "delete"} =>
        IF lockReq[RootOf(op'.node)]
        THEN /\ err' = "WriteRejected"
             /\ raw' = raw
             /\ pending' = pending
             /\ log' = <<>>
             /\ flushed' = <<>>
        ELSE /\ err' = "none"
             /\ raw'[op'.node] = op'.val

C10_LockedWrite == [][C10_Step]_vars

\* C10 witness: a write of a new value to o.x was rejected, while a listener is
\* registered on o.x.
C10_Witness ==
    /\ op.name = "set" /\ op.node = "x"
    /\ err = "WriteRejected"
    /\ raw["x"] # op.val
    /\ DeepOn("l2", "x")

\* C11: when state.arr is set to a rearrangement of its elements, the child
\* node of every element that is still in the array is the same node as
\* before, at the element's new index and labelled with it, with a deep
\* listener exactly if it had one; and the change is delivered as one shallow
\* notification at the array node, which names the moved keys (none when the
\* array is unchanged).
C11_Step ==
    op'.name = "setArray" =>
        LET old == arrayNode.value
            new == arrayNode'.value
        IN  /\ \A k \in KeysIn(old) \cap KeysIn(new) :
                  LET n == arrayNode.children[IndexOfKey(old, k)]
                  IN  /\ arrayNode'.children[IndexOfKey(new, k)] = n
                      /\ arrayNode'.key[n] = IndexOfKey(new, k)
                      /\ (n \in arrayNode'.listeners) = (n \in arrayNode.listeners)
            /\ Len(log') = IF old = new THEN 0 ELSE 1
            /\ old # new =>
                  /\ log'[1].node = "arr" /\ log'[1].kind = "shallow"
                  /\ log'[1].moved = {k \in KeysIn(old) \cap KeysIn(new) :
                                        IndexOfKey(old, k) # IndexOfKey(new, k)}

C11_ArrayIdentity == [][C11_Step]_vars

\* C11 witness: [1, 2, 3] became [2, 3, 1]; the node of element 1, which has a
\* listener, is now the child at index 3, and one notification was delivered
\* for the three moves.
C11_Witness ==
    /\ op.name = "setArray"
    /\ arrayNode.value = <<2, 3, 1>>
    /\ arrayNode.children = <<2, 3, 1>>
    /\ arrayNode.key[1] = 3
    /\ 1 \in arrayNode.listeners
    /\ Len(log) = 1 /\ log[1].moved = {1, 2, 3}

\* C12: the disposer of a listener or of an effect takes effect at once, also
\* with a batch open and writes to its dependencies pending; no operation
\* after it invokes the callback, the closing flush included. The callback of
\* when(), which disposes itself while it runs in a flush, runs once in that
\* flush and never after.
C12_Step ==
    /\ \A l \in LIds : ~lst[l].active => Calls(l)' = <<>>
    /\ eff["when"].state = "disposed" =>
          /\ Calls("when")' = <<>>
          /\ eff'["when"].state = "disposed"
          /\ cbCount' = cbCount
    /\ op'.name = "dispose" =>
          /\ log' = <<>>
          /\ \/ \E l \in LIds : lst[l].active /\ ~lst'[l].active
             \/ eff["when"].state = "tracked" /\ eff'["when"].state = "disposed"
    /\ Len(SelectSeq(log', LAMBDA c : c.kind = "whenCb")) <= 1
    /\ (\E i \in DOMAIN log' : log'[i].kind = "whenCb") =>
          /\ eff'["when"].state = "disposed"
          /\ Len(Calls("when")') = 2

C13_Step ==
    LET S == tracking.stack
        T == tracking'.stack
    IN  /\ op'.name = "runTracked" =>
              /\ Len(T) = Len(S) + 1
              /\ SubSeq(T, 1, Len(S)) = S
              /\ T[Len(T)] = [ev |-> op'.val, reads |-> {}]
        /\ (op'.name = "get" /\ S # <<>>) =>
              /\ Len(T) = Len(S)
              /\ \A i \in 1 .. Len(S) - 1 : T[i] = S[i]
              /\ T[Len(T)].ev = S[Len(S)].ev
              /\ T[Len(T)].reads = S[Len(S)].reads \cup {<<op'.node, op'.val = 1>>}
        /\ (op'.name = "get" /\ S = <<>>) => tracking' = tracking
        /\ op'.name = "endTracked" =>
              /\ T = SubSeq(S, 1, Len(S) - 1)
              /\ tracking'.done[S[Len(S)].ev] = S[Len(S)].reads
              /\ \A ev \in Evals \ {S[Len(S)].ev} : tracking'.done[ev] = tracking.done[ev]

C13_ContextsNest == [][C13_Step]_vars

\* C13 witness: the inner evaluation read state.a and completed; the outer one
\* then read state.o shallowly, and holds that read only.
C13_Witness ==
    /\ op.name = "get"
    /\ Len(tracking.stack) = 1
    /\ tracking.stack[1] = [ev |-> 1, reads |-> {<<"o", TRUE>>}]
    /\ tracking.started = {1, 2}
    /\ tracking.done[2] = {<<"a", FALSE>>}

\* C14: for observe(() => state.a.get() > 0 ? state.o.x.get() : 0), after every
\* run the effect is subscribed to exactly what that run read: state.a, and
\* state.o.x if state.a was positive; an operation in which it does not run
\* leaves its subscriptions alone; and a write to state.o.x made while the
\* effect is not subscribed to it does not re-run the effect.
C14_Step ==
    (eff'["obs"].state = "tracked") =>
        /\ Calls("obs")' # <<>> =>
              eff'["obs"].deps = IF raw'["a"] > 0
                                 THEN {<<"a", FALSE>>, <<"x", FALSE>>}
                                 ELSE {<<"a", FALSE>>}
        /\ (Calls("obs")' = <<>> /\ eff["obs"].state = "tracked") =>
              eff'["obs"].deps = eff["obs"].deps
        /\ (depth = 0 /\ op'.name \in {"set", "delete"} /\ op'.node = "x"
               /\ eff["obs"].state = "tracked" /\ <<"x", FALSE>> \notin eff["obs"].deps) =>
              Calls("obs")' = <<>>

C14_DynamicDependencies == [][C14_Step]_vars

\* C14 witness: a write made state.a 0; the effect, which was subscribed to
\* state.a and state.o.x, re-ran and is now subscribed to state.a only.
C14_Witness ==
    /\ op.name = "set" /\ op.node = "a" /\ depth = 0
    /\ raw["a"] = 0 /\ batchStart["a"] > 0
    /\ Tracked("obs") /\ eff["obs"].sel = "cond"
    /\ Len(Calls("obs")) = 1
    /\ Calls("obs")[1].deps = {<<"a", FALSE>>, <<"x", FALSE>>}
    /\ eff["obs"].deps = {<<"a", FALSE>>}

\* C15: observe(() => state.a.set(state.a.get() > 0 ? 0 : 1)) writes the node
\* it tracks. No operation runs it more than MaxReruns times: the operation
\* in which it would run again ends with CircularDependency, which is raised
\* exactly then; every operation that runs it with no batch open ends so.
C15_CircularDependency ==
    /\ Len(Calls("obs")) <= MaxReruns
    /\ (err = "CircularDependency") = (Len(Calls("obs")) = MaxReruns)
    /\ (Tracked("obs") /\ depth = 0 /\ Calls("obs") # <<>>) => err = "CircularDependency"

\* C15 witness: a write to state.a by the caller set the effect off; it ran
\* MaxReruns times and the write returned with CircularDependency.
C15_Witness ==
    /\ op.name = "set" /\ op.node = "a"
    /\ Tracked("obs") /\ eff["obs"].sel = "toggle"
    /\ Len(Calls("obs")) = MaxReruns
    /\ err = "CircularDependency"

\* C16: observe(() => state.o.x.set(state.a.get())) writes state.o.x from its
\* callback. In every operation that ends with no batch open, each such write
\* is delivered before the operation returns, to the listener on state.o.x and
\* to the listener on the root (with the path o.x and the value written), and
\* the operation returns with nothing pending.
C16_ReentrantWrites ==
    depth = 0 =>
        /\ pending = <<>>
        /\ \A i \in DOMAIN log :
              log[i].cb = "obs" =>
                  /\ \E j \in DOMAIN log :
                        /\ j > i /\ log[j].cb = "l2" /\ log[j].value = log[i].value
                  /\ \E j \in DOMAIN log :
                        /\ j > i /\ log[j].cb = "l1"
                        /\ \E k \in DOMAIN log[j].changes :
                              /\ log[j].changes[k].path = <<"o", "x">>
                              /\ log[j].changes[k].valueAtPath = log[i].value

\* C16 witness: a batch that wrote state.a closed; the effect ran in the flush
\* and changed state.o.x, and both listeners were told.
C16_Witness ==
    /\ op.name = "endBatch" /\ depth = 0 /\ pending = <<>>
    /\ written = {"a"}
    /\ raw["x"] = raw["a"] /\ raw["x"] # batchStart["x"]
    /\ Len(Calls("obs")) = 1
    /\ Calls("l2") # <<>>
    /\ Len(Calls("l1")) = 2

\* Node n is locked: the flag is on the root record of its tree.
NodeLocked(n) == locked[RootOf(n)]

\* C17: lockObservable(obs, value) on a node obs leaves every node of obs's
\* tree locked exactly if value is true, whatever was requested before, and
\* the nodes of the other tree as they were; with an obs that has no node it
\* changes nothing; and no other operation changes a locked flag.
C17_Step ==
    /\ (op'.name = "lock" /\ op'.node \in Nodes) =>
          \A n \in Nodes :
              NodeLocked(n)' = IF RootOf(n) = RootOf(op'.node)
                               THEN lockReq'[RootOf(op'.node)]
                               ELSE NodeLocked(n)
    /\ (op'.name = "lock" /\ op'.node \notin Nodes) => locked' = locked
    /\ op'.name # "lock" => locked' = locked

C17_LockIsPerTree == [][C17_Step]_vars

\* C17 witness: lockObservable(state.o.x, true) locked every node of the state
\* tree, and the tree of c is unlocked.
C17_Witness ==
    /\ op.name = "lock" /\ op.node = "x"
    /\ \A n \in {"root", "a", "o", "x"} : NodeLocked(n)
    /\ ~NodeLocked("c")

\* The paths of the objects of a call.
MPaths == {<<"k">>, <<"j">>, <<"k", "y">>, <<"k", "z">>}

\* The strict prefixes of path p that are paths.
PrefixesOf(p) == {SubSeq(p, 1, n) : n \in 1 .. Len(p) - 1}

\* Path p exists from value v: every key on it is a key of the object there.
RECURSIVE Defined(_, _, _)
Defined(h, v, p) ==
    \/ p = <<>>
    \/ /\ isObject(v)
       /\ Head(p) \in DOMAIN h[AddrOf(v)]
       /\ Defined(h, h[AddrOf(v)][Head(p)], Tail(p))

\* The value at path p from value v, undefined where there is none.
RECURSIVE ValAt(_, _, _)
ValAt(h, v, p) == IF p = <<>> THEN v ELSE ValAt(h, GetProp(h, v, Head(p)), Tail(p))

\* A value as its content: an object is its keys with their contents.
RECURSIVE Content(_, _)
Content(h, v) ==
    IF isObject(v)
    THEN <<"object", [key \in DOMAIN h[AddrOf(v)] |-> Content(h, h[AddrOf(v)][key])]>>
    ELSE <<"value", v>>

\* Value v is not a non-empty object.
LeafLike(h, v) == ~isObject(v) \/ isObjectEmpty(h, v)

\* The sources of the call that hold path p, as the caller passed them.
Defining(p) ==
    {i \in DOMAIN mergeCall.sources : Defined(mergeCall.before, mergeCall.sources[i], p)}

\* The last of them.
LastDefining(p) == CHOOSE i \in Defining(p) : \A j \in Defining(p) : j <= i

\* What source i held at path p when it was passed.
SourceAt(i, p) == ValAt(mergeCall.before, mergeCall.sources[i], p)

\* Source i held a value that is not a non-empty object at a strict prefix of p.
Overwrites(i, p) ==
    \E q \in PrefixesOf(p) :
        i \in Defining(q) /\ LeafLike(mergeCall.before, SourceAt(i, q))

\* The target holds at path p what source i held there.
TargetHolds(p, i) ==
    /\ Defined(heap, mergeCall.target, p)
    /\ Content(heap, ValAt(heap, mergeCall.target, p))
           = Content(mergeCall.before, SourceAt(i, p))

TargetKeeps(p) ==
    /\ Defined(heap, mergeCall.target, p)
    /\ Content(heap, ValAt(heap, mergeCall.target, p))
           = Content(mergeCall.before, ValAt(mergeCall.before, mergeCall.target, p))

\* C19 as stated: every key of the target, at any depth, whose path occurs in
\* no source keeps its value, whatever the sources hold at an enclosing path.
C19_AsStated ==
    mergeCall.state = "returned" =>
        \A p \in MPaths :
            (Defined(mergeCall.before, mergeCall.target, p) /\ Defining(p) = {}) =>
                TargetKeeps(p)

\* C19, amended: every key of the target whose path occurs in no source keeps
\* its value, unless a source holds at an enclosing path a value that is not a
\* non-empty object (an empty object, undefined or a primitive): that value
\* replaces the target's object there, with every key below it.
C19_UnmentionedKeysKept ==
    mergeCall.state = "returned" =>
        \A p \in MPaths :
            ( /\ Defined(mergeCall.before, mergeCall.target, p)
              /\ Defining(p) = {}
              /\ ~\E i \in DOMAIN mergeCall.sources : Overwrites(i, p) ) =>
                TargetKeeps(p)

\* C19 witness: the target held k.z and j, which no source mentions, and a
\* source gave it k.y; k.z and j are as they were.
C19_Witness ==
    /\ mergeCall.state = "returned"
    /\ Defined(mergeCall.before, mergeCall.target, <<"k", "z">>)
    /\ Defined(mergeCall.before, mergeCall.target, <<"j">>)
    /\ ~Defined(mergeCall.before, mergeCall.target, <<"k", "y">>)
    /\ Defining(<<"k", "y">>) = {1}
    /\ ValAt(heap, mergeCall.target, <<"k", "y">>) = 2
    /\ ValAt(heap, mergeCall.target, <<"k", "z">>) = 1
    /\ ValAt(heap, mergeCall.target, <<"j">>) = 1

\* The addresses of the objects passed as sources, with those nested in them.
SourceObjects ==
    {a \in DOMAIN mergeCall.before :
        \E i \in DOMAIN mergeCall.sources : a \in {SourceAddr(i), SourceAddr(i) + 1}}

\* C20 as stated: after the call, and after a later write into the merged
\* target, every source and every object nested in a source has the keys and
\* values it had when it was passed.
C20_AsStated ==
    mergeCall.state \in {"returned", "written"} =>
        \A a \in SourceObjects : heap[a] = mergeCall.before[a]

\* What the last call of computeSelector works on after the selector function,
\* if the selector is one, has been called: the function's result, or the
\* selector itself.
SelectedValue(call) ==
    IF call.selector.kind = "function" THEN call.selector.result ELSE call.selector

\* The reads the body of the selector function makes.
FunctionReads(call) ==
    IF call.selector.kind = "function" THEN call.selector.reads ELSE {}

\* C21: computeSelector(selector, e) calls a selector that is a function
\* exactly once, with e when e is given and with no argument otherwise, and
\* calls nothing else; when the selector or the function's result is an
\* observable it returns the raw value of that observable's node and, inside
\* an active tracking context, that node is recorded there as a dependency;
\* any other value is returned unchanged; the active context gains nothing
\* beyond that node and the reads of the function itself, the contexts under
\* it are untouched, and with no active context nothing is recorded.
C21_Step ==
    op'.name = "computeSelector" =>
        LET call == selCall'
            c == SelectedValue(call)
            S == tracking.stack
            T == tracking'.stack
            dep == IF c.kind = "observable" THEN {<<c.node, FALSE>>} ELSE {}
        IN  /\ call.calls = IF call.selector.kind = "function"
                            THEN <<IF call.e = ObserveEvent THEN <<ObserveEvent>> ELSE <<>>>>
                            ELSE <<>>
            /\ c.kind = "observable" => call.ret = PlainValue(raw[c.node])
            /\ c.kind # "observable" => call.ret = c
            /\ S # <<>> =>
                  /\ Len(T) = Len(S)
                  /\ \A i \in 1 .. Len(S) - 1 : T[i] = S[i]
                  /\ T[Len(T)].ev = S[Len(S)].ev
                  /\ T[Len(T)].reads = S[Len(S)].reads \cup FunctionReads(call) \cup dep
            /\ S = <<>> => tracking' = tracking
            /\ tracking'.started = tracking.started
            /\ tracking'.done = tracking.done
            /\ raw' = raw

C21_ComputeSelector == [][C21_Step]_vars

\* C21 witness: inside a tracked evaluation that had read nothing yet,
\* computeSelector was given the event and a function that reads state.a and,
\* shallowly, state.o and returns the observable state.o.x: the function was
\* called once with the event, the value of state.o.x was returned, and the
\* context holds the function's reads and state.o.x.
C21_Witness ==
    /\ op.name = "computeSelector"
    /\ selCall.selector = [kind |-> "function", reads |-> TrackedReads,
                           result |-> Observable("x")]
    /\ selCall.e = ObserveEvent
    /\ selCall.calls = << <<ObserveEvent>> >>
    /\ raw["x"] = 1
    /\ selCall.ret = PlainValue(1)
    /\ Len(tracking.stack) = 1
    /\ tracking.stack[1].reads = TrackedReads \cup {<<"x", FALSE>>}
====
